---- MODULE Spec2Model ----
(***************************************************************************)
(* Model of dgaitan/logos, app logos.readings: ingestion of the daily      *)
(* readings (fetch_vatican_readings), generation of draft meditations      *)
(* (generate_meditation, services/gemini.py), the approval stamping of    *)
(* the admin (GospelMeditationAdmin.save_model) and the readings an editor *)
(* adds by hand (DailyReadingAdmin).                                       *)
(*                                                                         *)
(* LiturgicalDay and GospelMeditation are sequences of rows in insertion   *)
(* order, a row's primary key being its index; DailyReading, whose primary *)
(* keys no code reads, is the bag of its rows.  Dates are proleptic         *)
(* Gregorian ordinals (date.toordinal()), all of them in January of year   *)
(* 1, so that ISO strings, weekdays and timedelta arithmetic are computed  *)
(* as Python computes them.                                                *)
(***************************************************************************)
EXTENDS Integers, Sequences, FiniteSets, Bags, TLC

VARIABLES
    days,         \* table LiturgicalDay: rows [date]
    readings,     \* table DailyReading: rows [day, language_code, reading_type, order, title, reference, text]
    meditations,  \* table GospelMeditation
    now,          \* the wall clock read by timezone.now()
    batch,        \* the management command in progress: its options and its position in the date loop
    ev,           \* locals and report of the last per-date handler run or admin save,
                  \* with the page parsed by an ingestion
    approved      \* history: ids of the meditations an admin save has stored as APPROVED

vars == <<days, readings, meditations, now, batch, ev, approved>>

----------------------------------------------------------------------------
(* Bounds of the model *)

MaxSections == 4    \* sections of a fetched page
MaxDaysArg == 2     \* largest --days
MaxMeditations == 2 \* rows of GospelMeditation generation may reach
MaxModerated == 1   \* rows of GospelMeditation while the moderation is explored
MaxClock == 2       \* ticks of the wall clock

\* the dates handled: 0001-01-06, a Saturday, and 0001-01-07, a Sunday
Dates == {6, 7}
Languages == {"es", "en"}
Users == {"ana", "luis"}
\* the orders an editor gives the readings added by hand; ingestion writes order 1
EditorOrders == {2, 3}

----------------------------------------------------------------------------
(* Python values *)

None == <<>>
Some(x) == <<x>>

\* python truthiness of an optional string / optional int
TruthyStr(s) == s # None /\ s[1] # ""
TruthyInt(n) == n # None /\ n[1] # 0

\* date.isoformat() for the dates of January, year 1
IsoFormat(d) == IF d < 10 THEN "0001-01-0" \o ToString(d) ELSE "0001-01-" \o ToString(d)

January == 1..31

\* date.fromisoformat(s): Some(date), or None when it raises ValueError
FromIsoFormat(s) ==
    IF \E d \in January : IsoFormat(d) = s
    THEN Some(CHOOSE d \in January : IsoFormat(d) = s)
    ELSE None

\* date.weekday(): Monday is 0, Sunday is 6; ordinal 1 is a Monday
Weekday(d) == (d + 6) % 7

SUNDAY == 6

\* the day the commands run on
Today == CHOOSE d \in Dates : Weekday(d) = SUNDAY

----------------------------------------------------------------------------
(* Date range resolver *)

RECURSIVE DateRangeExclusive(_, _)
\* the loop stopping one day before end
DateRangeExclusive(current, end) ==
    IF current < end THEN <<current>> \o DateRangeExclusive(current + 1, end) ELSE <<>>

RECURSIVE DateRange(_, _)
\* the generator loop: current = start; while current <= end: yield current; current += 1 day
DateRange(current, end) ==
    IF current <= end THEN <<current>> \o DateRange(current + 1, end) ELSE <<>>

\* the first half of _resolve_dates, the choice of start and end: [raised, start, end]
ResolveRange(date_str, start_str, end_str, days_arg, today) ==
    IF TruthyStr(start_str)
    THEN LET start == FromIsoFormat(start_str[1]) IN
         IF start = None THEN [raised |-> "ValueError", start |-> 0, end |-> 0]
         ELSE IF TruthyStr(end_str)
              THEN LET end == FromIsoFormat(end_str[1]) IN
                   IF end = None THEN [raised |-> "ValueError", start |-> 0, end |-> 0]
                   ELSE [raised |-> "", start |-> start[1], end |-> end[1]]
              ELSE IF TruthyInt(days_arg)
                   THEN [raised |-> "", start |-> start[1], end |-> start[1] + (days_arg[1] - 1)]
                   ELSE [raised |-> "", start |-> start[1], end |-> start[1]]
    ELSE IF TruthyStr(date_str)
         THEN LET d == FromIsoFormat(date_str[1]) IN
              IF d = None THEN [raised |-> "ValueError", start |-> 0, end |-> 0]
              ELSE [raised |-> "", start |-> d[1], end |-> d[1]]
         ELSE [raised |-> "", start |-> today, end |-> today]

\* _resolve_dates consumed by list(): [raised, dates]
ResolveDates(date_str, start_str, end_str, days_arg, today) ==
    LET r == ResolveRange(date_str, start_str, end_str, days_arg, today) IN
    IF r.raised # "" THEN [raised |-> r.raised, dates |-> <<>>]
    ELSE [raised |-> "", dates |-> DateRange(r.start, r.end)]

----------------------------------------------------------------------------
(* Content extractor *)

RECURSIVE SelectNonEmpty(_)
\* [p.get_text(strip=True) for p in paragraphs if p.get_text(strip=True)]
SelectNonEmpty(ps) ==
    IF ps = <<>> THEN <<>>
    ELSE IF Head(ps) # "" THEN <<Head(ps)>> \o SelectNonEmpty(Tail(ps))
         ELSE SelectNonEmpty(Tail(ps))

RECURSIVE Join(_, _)
\* sep.join(texts)
Join(sep, texts) ==
    IF texts = <<>> THEN ""
    ELSE IF Len(texts) = 1 THEN texts[1]
         ELSE texts[1] \o sep \o Join(sep, Tail(texts))

MinParagraphs == 3

RECURSIVE ExtractReadingBlocksMinTwo(_)
\* the filter asking for a title and a reference only
ExtractReadingBlocksMinTwo(sections) ==
    IF sections = <<>> THEN <<>>
    ELSE LET section == Head(sections)
             texts == SelectNonEmpty(section.paragraphs)
             rest == ExtractReadingBlocksMinTwo(Tail(sections))
         IN IF ~section.content THEN rest
            ELSE IF Len(texts) < 2 THEN rest
                 ELSE <<[title |-> texts[1],
                         reference |-> texts[2],
                         text |-> Join("\n\n", SubSeq(texts, 3, Len(texts)))]>> \o rest

RECURSIVE ExtractReadingBlocks(_)
\* a document is the sequence of its matching sections,
\* a section is [content: has a div.section__content, paragraphs: stripped texts of its <p>]
ExtractReadingBlocks(sections) ==
    IF sections = <<>> THEN <<>>
    ELSE LET section == Head(sections)
             texts == SelectNonEmpty(section.paragraphs)
             rest == ExtractReadingBlocks(Tail(sections))
         IN IF ~section.content THEN rest
            ELSE IF Len(texts) < MinParagraphs THEN rest
                 ELSE <<[title |-> texts[1],
                         reference |-> texts[2],
                         text |-> Join("\n\n", SubSeq(texts, 3, Len(texts)))]>> \o rest

----------------------------------------------------------------------------
(* Storage: the ORM calls the commands make *)

DayIds(tbl, date) == {i \in 1..Len(tbl) : tbl[i].date = date}

\* objects.create in the place of get_or_create
GetOrCreateDayAlwaysCreate(tbl, date) ==
    [days |-> Append(tbl, [date |-> date]), id |-> Len(tbl) + 1, raised |-> ""]

\* LiturgicalDay.objects.get_or_create(date=date): [days, id, raised]
GetOrCreateDay(tbl, date) ==
    IF DayIds(tbl, date) = {}
    THEN [days |-> Append(tbl, [date |-> date]), id |-> Len(tbl) + 1, raised |-> ""]
    ELSE IF Cardinality(DayIds(tbl, date)) = 1
         THEN [days |-> tbl, id |-> CHOOSE i \in DayIds(tbl, date) : TRUE, raised |-> ""]
         ELSE [days |-> tbl, id |-> 0, raised |-> "MultipleObjectsReturned"]

\* DailyReading.objects.filter(day=, language_code=, reading_type=, order=)
ReadingRows(tbl, day, language_code, reading_type, order) ==
    {r \in BagToSet(tbl) : /\ r.day = day
                           /\ r.language_code = language_code
                           /\ r.reading_type = reading_type
                           /\ r.order = order}

\* number of rows a set of distinct rows stands for in the table
RECURSIVE CountRows(_, _)
CountRows(tbl, rows) ==
    IF rows = {} THEN 0
    ELSE LET r == CHOOSE x \in rows : TRUE IN CopiesIn(r, tbl) + CountRows(tbl, rows \ {r})

\* the readings of the day and language deleted, then the new row inserted
UpsertReadingReplaceDay(tbl, day, language_code, reading_type, order, block) ==
    LET old == {r \in BagToSet(tbl) : r.day = day /\ r.language_code = language_code}
        kept == [r \in BagToSet(tbl) \ old |-> CopiesIn(r, tbl)]
    IN [readings |-> kept (+) SetToBag({[day |-> day, language_code |-> language_code,
                                         reading_type |-> reading_type, order |-> order,
                                         title |-> block.title, reference |-> block.reference,
                                         text |-> block.text]}),
        raised |-> ""]

\* objects.create in the place of update_or_create
UpsertReadingAlwaysInsert(tbl, day, language_code, reading_type, order, block) ==
    [readings |-> tbl (+) SetToBag({[day |-> day, language_code |-> language_code,
                                     reading_type |-> reading_type, order |-> order,
                                     title |-> block.title, reference |-> block.reference,
                                     text |-> block.text]}),
     raised |-> ""]

\* DailyReading.objects.update_or_create(day, language_code, reading_type, order, defaults=...):
\* [readings, raised]
UpsertReading(tbl, day, language_code, reading_type, order, block) ==
    LET rows == ReadingRows(tbl, day, language_code, reading_type, order)
        new == [day |-> day, language_code |-> language_code,
                reading_type |-> reading_type, order |-> order,
                title |-> block.title, reference |-> block.reference,
                text |-> block.text]
    IN IF rows = {}
       THEN [readings |-> tbl (+) SetToBag({new}), raised |-> ""]
       ELSE IF CountRows(tbl, rows) = 1
            THEN LET old == CHOOSE r \in rows : TRUE IN
                 [readings |-> (tbl (-) SetToBag({old})) (+) SetToBag({new}), raised |-> ""]
            ELSE [readings |-> tbl, raised |-> "MultipleObjectsReturned"]

\* the Sunday branch taken on every day
AssignmentsIgnoringWeekday(date, blocks) ==
    (IF Len(blocks) >= 1 THEN <<[reading_type |-> "FIRST_READING", order |-> 1, block |-> 1]>> ELSE <<>>)
    \o (IF Len(blocks) >= 2 THEN <<[reading_type |-> "SECOND_READING", order |-> 1, block |-> 2]>> ELSE <<>>)
    \o (IF Len(blocks) >= 3 THEN <<[reading_type |-> "GOSPEL", order |-> 1, block |-> 3]>> ELSE <<>>)

\* the positional assignment of _fetch_for_date: which block goes to which slot
Assignments(date, blocks) ==
    IF Weekday(date) # SUNDAY
    THEN (IF Len(blocks) >= 1 THEN <<[reading_type |-> "FIRST_READING", order |-> 1, block |-> 1]>> ELSE <<>>)
         \o (IF Len(blocks) >= 2 THEN <<[reading_type |-> "GOSPEL", order |-> 1, block |-> 2]>> ELSE <<>>)
    ELSE (IF Len(blocks) >= 1 THEN <<[reading_type |-> "FIRST_READING", order |-> 1, block |-> 1]>> ELSE <<>>)
         \o (IF Len(blocks) >= 2 THEN <<[reading_type |-> "SECOND_READING", order |-> 1, block |-> 2]>> ELSE <<>>)
         \o (IF Len(blocks) >= 3 THEN <<[reading_type |-> "GOSPEL", order |-> 1, block |-> 3]>> ELSE <<>>)

RECURSIVE UpsertAll(_, _, _, _, _)
\* the calls of _upsert_reading in order, up to the first that raises: [readings, raised]
UpsertAll(tbl, day, language_code, blocks, todo) ==
    IF todo = <<>> THEN [readings |-> tbl, raised |-> ""]
    ELSE LET u == UpsertReading(tbl, day, language_code, Head(todo).reading_type,
                                Head(todo).order, blocks[Head(todo).block])
         IN IF u.raised # "" THEN u
            ELSE UpsertAll(u.readings, day, language_code, blocks, Tail(todo))

\* get_or_create moved above requests.get: the day is stored whatever the fetch gives
FetchForDateDayFirst(date, language_code, response) ==
    LET goc == GetOrCreateDay(days, date)
        blocks == ExtractReadingBlocks(response.document)
        ups == UpsertAll(readings, goc.id, language_code, blocks, Assignments(date, blocks))
    IN IF goc.raised # ""
       THEN [days |-> days, readings |-> readings, blocks |-> <<>>, outcome |-> goc.raised]
       ELSE IF response.exc
       THEN [days |-> goc.days, readings |-> readings, blocks |-> <<>>,
             outcome |-> "RequestException"]
       ELSE IF response.status_code # 200
       THEN [days |-> goc.days, readings |-> readings, blocks |-> <<>>, outcome |-> "CommandError"]
       ELSE IF blocks = <<>>
       THEN [days |-> goc.days, readings |-> readings, blocks |-> blocks,
             outcome |-> "no sections"]
       ELSE [days |-> goc.days, readings |-> ups.readings, blocks |-> blocks,
             outcome |-> IF ups.raised # "" THEN ups.raised ELSE "ok"]

\* get_or_create moved below the test of the blocks
FetchForDateLateDay(date, language_code, response) ==
    IF response.exc
    THEN [days |-> days, readings |-> readings, blocks |-> <<>>, outcome |-> "RequestException"]
    ELSE IF response.status_code # 200
    THEN [days |-> days, readings |-> readings, blocks |-> <<>>, outcome |-> "CommandError"]
    ELSE LET goc == GetOrCreateDay(days, date)
             blocks == ExtractReadingBlocks(response.document)
             ups == UpsertAll(readings, goc.id, language_code, blocks, Assignments(date, blocks))
         IN IF goc.raised # ""
            THEN [days |-> days, readings |-> readings, blocks |-> <<>>, outcome |-> goc.raised]
            ELSE IF blocks = <<>>
            THEN [days |-> days, readings |-> readings, blocks |-> blocks,
                  outcome |-> "no sections"]
            ELSE [days |-> goc.days, readings |-> ups.readings, blocks |-> blocks,
                  outcome |-> IF ups.raised # "" THEN ups.raised ELSE "ok"]

\* _fetch_for_date on the response of requests.get: the store it leaves and how it ends
FetchForDate(date, language_code, response) ==
    IF response.exc
    THEN [days |-> days, readings |-> readings, blocks |-> <<>>, outcome |-> "RequestException"]
    ELSE IF response.status_code # 200
    THEN [days |-> days, readings |-> readings, blocks |-> <<>>, outcome |-> "CommandError"]
    ELSE LET goc == GetOrCreateDay(days, date)
             blocks == ExtractReadingBlocks(response.document)
             ups == UpsertAll(readings, goc.id, language_code, blocks, Assignments(date, blocks))
         IN IF goc.raised # ""
            THEN [days |-> days, readings |-> readings, blocks |-> <<>>, outcome |-> goc.raised]
            ELSE IF blocks = <<>>
            THEN [days |-> goc.days, readings |-> readings, blocks |-> blocks,
                  outcome |-> "no sections"]
            ELSE [days |-> goc.days, readings |-> ups.readings, blocks |-> blocks,
                  outcome |-> IF ups.raised # "" THEN ups.raised ELSE "ok"]

----------------------------------------------------------------------------
(* Generator service: services/gemini.py *)

Whitespace == {" ", "\n"}

RECURSIVE LStrip(_)
LStrip(cs) == IF cs # <<>> /\ Head(cs) \in Whitespace THEN LStrip(Tail(cs)) ELSE cs

RECURSIVE RStrip(_)
RStrip(cs) ==
    IF cs # <<>> /\ cs[Len(cs)] \in Whitespace THEN RStrip(SubSeq(cs, 1, Len(cs) - 1)) ELSE cs

\* str.strip() of a text given as the sequence of its pieces
Strip(cs) == Join("", RStrip(LStrip(cs)))

\* the fields _build_prompt interpolates into the template
BuildPrompt(gospel_text, reference, liturgical_date, language_code) ==
    [gospel_text |-> gospel_text, reference |-> reference,
     date_str |-> IsoFormat(liturgical_date), language_code |-> language_code]

\* the walk data["candidates"][0]["content"]["parts"][0]["text"] over the decoded body
CandidateText(data) ==
    IF data.shape = "candidates" THEN [raised |-> "", text |-> data.text]
    ELSE IF data.shape = "no candidates key" THEN [raised |-> "KeyError", text |-> <<>>]
    ELSE IF data.shape = "empty candidates" THEN [raised |-> "IndexError", text |-> <<>>]
    ELSE [raised |-> "TypeError", text |-> <<>>]

\* generate_meditation: [raised, text, called (requests.post was called)]
GeminiGenerate(api_key, response) ==
    IF api_key = "" THEN [raised |-> "GeminiError", text |-> "", called |-> FALSE]
    ELSE IF response.exc THEN [raised |-> "GeminiError", text |-> "", called |-> TRUE]
    ELSE IF response.status_code # 200
    THEN [raised |-> "GeminiError", text |-> "", called |-> TRUE]
    ELSE IF ~response.json THEN [raised |-> "JSONDecodeError", text |-> "", called |-> TRUE]
    ELSE LET c == CandidateText(response.data) IN
         IF c.raised \in {"KeyError", "IndexError", "TypeError"}
         THEN [raised |-> "GeminiError", text |-> "", called |-> TRUE]
         ELSE [raised |-> "", text |-> Strip(c.text), called |-> TRUE]

----------------------------------------------------------------------------
(* Generation workflow *)

\* the guard looking at approved meditations only
MeditationExistsApprovedOnly(tbl, day, language_code) ==
    \E i \in 1..Len(tbl) : /\ tbl[i].day = day
                           /\ tbl[i].language_code = language_code
                           /\ tbl[i].status = "APPROVED"

\* GospelMeditation.objects.filter(day=, language_code=).exists()
MeditationExists(tbl, day, language_code) ==
    \E i \in 1..Len(tbl) : tbl[i].day = day /\ tbl[i].language_code = language_code

Gospels(tbl, day, language_code) ==
    {r \in BagToSet(tbl) : /\ r.day = day
                           /\ r.language_code = language_code
                           /\ r.reading_type = "GOSPEL"}

\* the query without order_by: any of the rows may come first
FirstGospelsUnordered(tbl, day, language_code) == Gospels(tbl, day, language_code)

\* .order_by("order").first(): the rows the database may return first
FirstGospels(tbl, day, language_code) ==
    {r \in Gospels(tbl, day, language_code) :
        \A q \in Gospels(tbl, day, language_code) : r.order <= q.order}

MeditationTitle(date) == "Meditacion para el evangelio de hoy (" \o IsoFormat(date) \o ")"

\* update_or_create on (day, language_code) in the place of create
CreateMeditationUpsert(tbl, row) ==
    LET ids == {i \in 1..Len(tbl) : tbl[i].day = row.day /\ tbl[i].language_code = row.language_code}
    IN IF ids = {} THEN Append(tbl, row)
       ELSE [tbl EXCEPT ![CHOOSE i \in ids : TRUE] = row]

\* GospelMeditation.objects.create(...)
CreateMeditation(tbl, row) == Append(tbl, row)

\* the gospel looked up before the existing meditations
GenerateForDateGospelFirst(date, language_code, force, api_key, gospel, response) ==
    LET ids == DayIds(days, date)
        skip(o) == [meditations |-> meditations, outcome |-> o, called |-> FALSE,
                    prompt |-> None, body |-> None]
    IN IF ids = {} THEN skip("no day")
       ELSE IF Cardinality(ids) > 1 THEN skip("MultipleObjectsReturned")
       ELSE LET liturgical_day == CHOOSE i \in ids : TRUE IN
            IF gospel = None THEN skip("no gospel")
            ELSE IF ~force /\ MeditationExists(meditations, liturgical_day, language_code)
            THEN skip("already exists")
            ELSE LET g == GeminiGenerate(api_key, response)
                     prompt == BuildPrompt(gospel[1].text, gospel[1].reference,
                                           days[liturgical_day].date, language_code)
                 IN IF g.raised # ""
                    THEN [meditations |-> meditations, outcome |-> g.raised,
                          called |-> g.called, prompt |-> Some(prompt), body |-> None]
                    ELSE [meditations |->
                              CreateMeditation(meditations,
                                     [day |-> liturgical_day, language_code |-> language_code,
                                      title |-> MeditationTitle(days[liturgical_day].date),
                                      body |-> g.text, source |-> "AI", status |-> "DRAFT",
                                      approved_by |-> None, approved_at |-> None]),
                          outcome |-> "created", called |-> g.called,
                          prompt |-> Some(prompt), body |-> Some(g.text)]

\* _generate_for_date with the gospel the query returned and the generator's response:
\* [meditations, outcome, called, prompt, body]
GenerateForDate(date, language_code, force, api_key, gospel, response) ==
    LET ids == DayIds(days, date)
        skip(o) == [meditations |-> meditations, outcome |-> o, called |-> FALSE,
                    prompt |-> None, body |-> None]
    IN IF ids = {} THEN skip("no day")
       ELSE IF Cardinality(ids) > 1 THEN skip("MultipleObjectsReturned")
       ELSE LET liturgical_day == CHOOSE i \in ids : TRUE IN
            IF ~force /\ MeditationExists(meditations, liturgical_day, language_code)
            THEN skip("already exists")
            ELSE IF gospel = None THEN skip("no gospel")
            ELSE LET g == GeminiGenerate(api_key, response)
                     prompt == BuildPrompt(gospel[1].text, gospel[1].reference,
                                           days[liturgical_day].date, language_code)
                 IN IF g.raised # ""
                    THEN [meditations |-> meditations, outcome |-> g.raised,
                          called |-> g.called, prompt |-> Some(prompt), body |-> None]
                    ELSE [meditations |->
                              CreateMeditation(meditations,
                                     [day |-> liturgical_day, language_code |-> language_code,
                                      title |-> MeditationTitle(days[liturgical_day].date),
                                      body |-> g.text, source |-> "AI", status |-> "DRAFT",
                                      approved_by |-> None, approved_at |-> None]),
                          outcome |-> "created", called |-> g.called,
                          prompt |-> Some(prompt), body |-> Some(g.text)]

\* what escapes _generate_for_date and ends the command
Escapes(outcome) == outcome \in {"JSONDecodeError", "MultipleObjectsReturned"}

----------------------------------------------------------------------------
(* Moderation: GospelMeditationAdmin.save_model *)

Statuses == {"DRAFT", "APPROVED", "REJECTED"}
Sources == {"AI", "HUMAN"}

\* the stamping without the "is None" guards
StampApprovalOverwrite(obj, user, time) ==
    IF obj.status = "APPROVED"
    THEN [obj EXCEPT !.approved_by = Some(user), !.approved_at = Some(time)]
    ELSE obj

\* the stamping of save_model on the object built from the form
StampApproval(obj, user, time) ==
    IF obj.status = "APPROVED"
    THEN [obj EXCEPT !.approved_by = IF @ = None THEN Some(user) ELSE @,
                     !.approved_at = IF @ = None THEN Some(time) ELSE @]
    ELSE obj

\* the object the admin form builds: the editable fields from the form, the
\* read-only approved_by and approved_at from the stored row (None on an add)
FormObject(tbl, id, form) ==
    [day |-> form.day, language_code |-> form.language_code, title |-> form.title,
     body |-> form.body, source |-> form.source, status |-> form.status,
     approved_by |-> IF id = 0 THEN None ELSE tbl[id].approved_by,
     approved_at |-> IF id = 0 THEN None ELSE tbl[id].approved_at]

----------------------------------------------------------------------------
(* Inputs *)

Args(date_strs, start_strs, end_strs, days_args) ==
    [date_str : date_strs, start_str : start_strs, end_str : end_strs, days : days_args]

IsoDates == {Some(IsoFormat(d)) : d \in Dates}

\* every shape of the command line: absent, empty, malformed and well-formed strings
AllArgs == Args({None, Some("2024-13-45")} \cup IsoDates,
                {None, Some(""), Some("2024-13-45")} \cup IsoDates,
                {None, Some("2024-13-45")} \cup IsoDates,
                {None} \cup {Some(n) : n \in (0 - 1)..MaxDaysArg})

\* --start-date D --days N
RangeArgs == Args({None}, IsoDates, {None}, {Some(n) : n \in 1..MaxDaysArg})

ShortSection == [content |-> TRUE, paragraphs |-> <<"Ta", "", "Ra">>]
NoContentSection == [content |-> FALSE, paragraphs |-> <<"Ta", "Ra", "xa">>]
SectionA == [content |-> TRUE, paragraphs |-> <<"Ta", "Ra", "xa">>]
SectionB == [content |-> TRUE, paragraphs |-> <<"Tb", "", "Rb", "xb", "yb">>]

DocumentsOf(kinds) == UNION {[1..n -> kinds] : n \in 0..MaxSections}

ResponsesOf(documents) ==
    {[exc |-> TRUE, status_code |-> 0, document |-> <<>>]}
    \cup {[exc |-> FALSE, status_code |-> 404, document |-> <<>>]}
    \cup {[exc |-> FALSE, status_code |-> 200, document |-> doc] : doc \in documents}

GeminiResponse(exc, status_code, json, shape, text) ==
    [exc |-> exc, status_code |-> status_code, json |-> json,
     data |-> [shape |-> shape, text |-> text]]

\* a network failure, a non-200 status, a body that is no JSON, JSON of another
\* shape, and the expected answer
GeminiResponses ==
    { GeminiResponse(TRUE, 0, FALSE, "", <<>>),
      GeminiResponse(FALSE, 500, FALSE, "", <<>>),
      GeminiResponse(FALSE, 200, FALSE, "", <<>>),
      GeminiResponse(FALSE, 200, TRUE, "no candidates key", <<>>),
      GeminiResponse(FALSE, 200, TRUE, "empty candidates", <<>>),
      GeminiResponse(FALSE, 200, TRUE, "not an object", <<>>),
      GeminiResponse(FALSE, 200, TRUE, "candidates", <<" ", "Meditemos", "\n">>) }

GoodGeminiResponse == GeminiResponse(FALSE, 200, TRUE, "candidates", <<" ", "Meditemos", "\n">>)

\* the admin form of a stored meditation, as prefilled
FormOf(m) ==
    [day |-> m.day, language_code |-> m.language_code, title |-> m.title,
     body |-> m.body, source |-> m.source, status |-> m.status]

\* the admin form of a meditation written by hand
NewForm(day, language_code, status) ==
    [day |-> day, language_code |-> language_code, title |-> "Lectio",
     body |-> "Oremos", source |-> "HUMAN", status |-> status]

----------------------------------------------------------------------------
(* State machine *)

NoArgs == [date_str |-> None, start_str |-> None, end_str |-> None, days |-> None]

Idle == [kind |-> "none", pc |-> "idle", args |-> NoArgs, today |-> Today, dates |-> <<>>,
         i |-> 1, language_code |-> "es", force |-> FALSE, api_key |-> "", error |-> ""]

NoEvent == [op |-> "none", outcome |-> "", document |-> <<>>, blocks |-> <<>>, called |-> FALSE,
            prompt |-> None, body |-> None, id |-> 0, user |-> ""]

Init ==
    /\ days = <<>>
    /\ readings = EmptyBag
    /\ meditations = <<>>
    /\ now = 1
    /\ batch = Idle
    /\ ev = NoEvent
    /\ approved = {}

\* the dates of a run stay within the dates of the model
InModel(dates) == \A k \in 1..Len(dates) : dates[k] \in Dates

\* Command.handle of fetch_vatican_readings up to the loop
StartFetch(args, language, today) ==
    /\ batch.pc # "running"
    /\ LET r == ResolveDates(args.date_str, args.start_str, args.end_str, args.days, today) IN
       /\ InModel(r.dates)
       /\ batch' = [kind |-> "fetch", args |-> args, today |-> today, dates |-> r.dates, i |-> 1,
                    language_code |-> language, force |-> FALSE, api_key |-> "",
                    pc |-> IF r.raised # "" THEN "failed"
                           ELSE IF r.dates = <<>> THEN "failed" ELSE "running",
                    error |-> IF r.raised # "" THEN r.raised
                              ELSE IF r.dates = <<>> THEN "CommandError" ELSE ""]
    /\ ev' = NoEvent
    /\ UNCHANGED <<days, readings, meditations, now, approved>>

\* the loop without its try/except: an exception of _fetch_for_date ends the command
FetchStepUncaught(response) ==
    /\ batch.kind = "fetch" /\ batch.pc = "running"
    /\ LET date == batch.dates[batch.i]
           r == FetchForDate(date, batch.language_code, response)
           raised == r.outcome \in {"RequestException", "CommandError", "MultipleObjectsReturned"}
       IN /\ days' = r.days
          /\ readings' = r.readings
          /\ ev' = [op |-> "fetch", outcome |-> r.outcome, document |-> response.document,
                    blocks |-> r.blocks,
                    called |-> FALSE, prompt |-> None, body |-> None, id |-> 0, user |-> ""]
          /\ batch' = [batch EXCEPT !.i = @ + 1,
                                    !.pc = IF raised THEN "failed"
                                           ELSE IF batch.i = Len(batch.dates) THEN "done"
                                           ELSE "running",
                                    !.error = IF raised THEN r.outcome ELSE @]
    /\ UNCHANGED <<meditations, now, approved>>

\* the loop walking the dates from the last to the first
FetchStepReversed(response) ==
    /\ batch.kind = "fetch" /\ batch.pc = "running"
    /\ LET date == batch.dates[Len(batch.dates) + 1 - batch.i]
           r == FetchForDate(date, batch.language_code, response)
       IN /\ days' = r.days
          /\ readings' = r.readings
          /\ ev' = [op |-> "fetch", outcome |-> r.outcome, document |-> response.document,
                    blocks |-> r.blocks,
                    called |-> FALSE, prompt |-> None, body |-> None, id |-> 0, user |-> ""]
          /\ batch' = [batch EXCEPT !.i = @ + 1,
                                    !.pc = IF batch.i = Len(batch.dates) THEN "done" ELSE "running"]
    /\ UNCHANGED <<meditations, now, approved>>

\* one iteration of the loop of Command.handle: try _fetch_for_date, except Exception: report
FetchStep(response) ==
    /\ batch.kind = "fetch" /\ batch.pc = "running"
    /\ LET date == batch.dates[batch.i]
           r == FetchForDate(date, batch.language_code, response)
       IN /\ days' = r.days
          /\ readings' = r.readings
          /\ ev' = [op |-> "fetch", outcome |-> r.outcome, document |-> response.document,
                    blocks |-> r.blocks,
                    called |-> FALSE, prompt |-> None, body |-> None, id |-> 0, user |-> ""]
          /\ batch' = [batch EXCEPT !.i = @ + 1,
                                    !.pc = IF batch.i = Len(batch.dates) THEN "done" ELSE "running"]
    /\ UNCHANGED <<meditations, now, approved>>

\* Command.handle of generate_meditation up to the loop; api_key is the
\* GEMINI_API_KEY of the settings this process runs with
StartGenerate(args, language, force, api_key, today) ==
    /\ batch.pc # "running"
    /\ LET r == ResolveDates(args.date_str, args.start_str, args.end_str, args.days, today) IN
       /\ InModel(r.dates)
       /\ batch' = [kind |-> "generate", args |-> args, today |-> today, dates |-> r.dates, i |-> 1,
                    language_code |-> language, force |-> force, api_key |-> api_key,
                    pc |-> IF r.raised # "" THEN "failed"
                           ELSE IF r.dates = <<>> THEN "done" ELSE "running",
                    error |-> r.raised]
    /\ ev' = NoEvent
    /\ UNCHANGED <<days, readings, meditations, now, approved>>

\* one iteration of the loop of Command.handle: _generate_for_date, nothing caught here;
\* the table grows to cap rows at most
GenerateStep(response, cap) ==
    /\ batch.kind = "generate" /\ batch.pc = "running"
    /\ LET date == batch.dates[batch.i]
           ids == DayIds(days, date)
           first == IF Cardinality(ids) = 1
                    THEN FirstGospels(readings, CHOOSE i \in ids : TRUE, batch.language_code)
                    ELSE {}
       IN \E gospel \in (IF first = {} THEN {None} ELSE {Some(g) : g \in first}) :
          LET r == GenerateForDate(date, batch.language_code, batch.force, batch.api_key,
                                   gospel, response)
          IN /\ Len(r.meditations) <= cap
             /\ meditations' = r.meditations
             /\ ev' = [op |-> "generate", outcome |-> r.outcome, document |-> <<>>, blocks |-> <<>>,
                       called |-> r.called, prompt |-> r.prompt, body |-> r.body,
                       id |-> 0, user |-> ""]
             /\ batch' = [batch EXCEPT !.i = @ + 1,
                                       !.pc = IF Escapes(r.outcome) THEN "failed"
                                              ELSE IF batch.i = Len(batch.dates) THEN "done"
                                              ELSE "running",
                                       !.error = IF Escapes(r.outcome) THEN r.outcome ELSE @]
    /\ UNCHANGED <<days, readings, now, approved>>

\* GospelMeditationAdmin.save_model for an add (id = 0) or a change of row id
SaveModel(user, id, form) ==
    /\ id # 0 => id \in 1..Len(meditations)
    /\ form.day \in 1..Len(days)
    /\ LET obj == StampApproval(FormObject(meditations, id, form), user, now) IN
       /\ meditations' = IF id = 0 THEN Append(meditations, obj)
                         ELSE [meditations EXCEPT ![id] = obj]
       /\ ev' = [op |-> "save", outcome |-> IF id = 0 THEN "added" ELSE "changed",
                 document |-> <<>>, blocks |-> <<>>, called |-> FALSE, prompt |-> None, body |-> None,
                 id |-> IF id = 0 THEN Len(meditations) + 1 ELSE id, user |-> user]
       /\ approved' = IF obj.status = "APPROVED"
                      THEN approved \cup {IF id = 0 THEN Len(meditations) + 1 ELSE id}
                      ELSE approved
    /\ UNCHANGED <<days, readings, now, batch>>

\* a reading written by hand
AdminBlock(order) ==
    [title |-> "Evangelio", reference |-> "Jn " \o ToString(order), text |-> "g" \o ToString(order)]

\* DailyReadingAdmin, add view: a reading of a stored day under a key not yet in use
AddReading(day, language_code, reading_type, order, block) ==
    /\ day \in 1..Len(days)
    /\ ReadingRows(readings, day, language_code, reading_type, order) = {}
    /\ readings' = readings (+) SetToBag({[day |-> day, language_code |-> language_code,
                                           reading_type |-> reading_type, order |-> order,
                                           title |-> block.title, reference |-> block.reference,
                                           text |-> block.text]})
    /\ ev' = [NoEvent EXCEPT !.op = "save reading", !.outcome = "added"]
    /\ UNCHANGED <<days, meditations, now, batch, approved>>

\* time passes
Tick ==
    /\ now < MaxClock
    /\ now' = now + 1
    /\ UNCHANGED <<days, readings, meditations, batch, ev, approved>>

\* the date of the iteration that ran last
CurrentDate == batch.dates[batch.i - 1]

\* ingestion alone, over every page
NextIngest ==
    \/ \E args \in RangeArgs : StartFetch(args, "es", Today)
    \/ \E response \in ResponsesOf(DocumentsOf({SectionA, SectionB})) :
          FetchStep(response)

SpecIngest == Init /\ [][NextIngest]_vars

\* a moderator adds a meditation, cap rows at most, or changes the status of a stored one
Moderate(users, languages, statuses, cap) ==
    \/ \E user \in users, day \in 1..Len(days), language \in languages, status \in statuses :
          Len(meditations) < cap /\ SaveModel(user, 0, NewForm(day, language, status))
    \/ \E user \in users, id \in 1..Len(meditations), status \in statuses :
          SaveModel(user, id, [FormOf(meditations[id]) EXCEPT !.status = status])

\* both commands and the admin: readings are ingested in Spanish, meditations
\* are generated in either language, written by hand in English and approved
Next ==
    \/ \E args \in RangeArgs : StartFetch(args, "es", Today)
    \/ \E response \in ResponsesOf({<<SectionA, SectionB, SectionA>>}) : FetchStep(response)
    \/ \E args \in RangeArgs, language \in Languages, force \in BOOLEAN :
          StartGenerate(args, language, force, "secret", Today)
    \/ \E response \in GeminiResponses : GenerateStep(response, MaxMeditations)
    \/ Moderate({"ana"}, {"en"}, {"APPROVED"}, MaxMeditations)

Spec == Init /\ [][Next]_vars

\* --date D
DateArgs == Args({Some(IsoFormat(Today))}, {None}, {None}, {None})

\* the moderation of the meditations of one day: several moderators, time passing
NextModeration ==
    \/ \E args \in DateArgs : StartFetch(args, "es", Today)
    \/ \E response \in ResponsesOf({<<SectionA, SectionB, SectionA>>}) : FetchStep(response)
    \/ \E args \in DateArgs, force \in BOOLEAN : StartGenerate(args, "es", force, "secret", Today)
    \/ \E response \in {GeminiResponse(TRUE, 0, FALSE, "", <<>>), GoodGeminiResponse} :
          GenerateStep(response, MaxModerated)
    \/ Moderate(Users, {"es"}, Statuses, MaxModerated)
    \/ Tick

SpecModeration == Init /\ [][NextModeration]_vars

\* sections the extractor keeps and sections it drops
SectionKinds == {ShortSection, NoContentSection, SectionA, SectionB}

\* the ingestion of one date over every page of kept and dropped sections
NextExtract ==
    \/ \E args \in DateArgs : StartFetch(args, "es", Today)
    \/ \E response \in ResponsesOf(DocumentsOf(SectionKinds)) : FetchStep(response)

SpecExtract == Init /\ [][NextExtract]_vars

\* GEMINI_API_KEY of the settings: not configured, configured
ApiKeys == {"", "secret"}

\* generation over the readings of a page of two blocks, the gospel of a weekday
\* and no gospel of a Sunday, and the gospels an editor added by hand, with and
\* without the credential
NextGenerate ==
    \/ \E args \in RangeArgs : StartFetch(args, "es", Today)
    \/ \E response \in ResponsesOf({<<SectionA, SectionB>>}) : FetchStep(response)
    \/ \E day \in 1..Len(days), order \in EditorOrders :
          AddReading(day, "es", "GOSPEL", order, AdminBlock(order))
    \/ \E args \in RangeArgs, force \in BOOLEAN, api_key \in ApiKeys :
          StartGenerate(args, "es", force, api_key, Today)
    \/ \E response \in {GoodGeminiResponse} : GenerateStep(response, MaxMeditations)

SpecGenerate == Init /\ [][NextGenerate]_vars

\* both commands over every shape of the command line, the source site being down
NextResolve ==
    \/ \E args \in AllArgs : StartFetch(args, "es", Today)
    \/ \E response \in ResponsesOf({}) : FetchStep(response)
    \/ \E args \in AllArgs : StartGenerate(args, "es", FALSE, "secret", Today)
    \/ \E response \in {GoodGeminiResponse} : GenerateStep(response, MaxMeditations)

SpecResolve == Init /\ [][NextResolve]_vars

----------------------------------------------------------------------------
(* Properties *)

\* an iteration of the date loop is being taken
FetchStepTaken == batch.kind = "fetch" /\ batch.pc = "running" /\ batch'.i = batch.i + 1
GenerateStepTaken == batch.kind = "generate" /\ batch.pc = "running" /\ batch'.i = batch.i + 1

\* where the loop stands after an iteration that did not end the command
LoopGoesOn == batch'.pc = (IF batch.i = Len(batch.dates) THEN "done" ELSE "running")

Unstamped(m) == m.approved_by = None /\ m.approved_at = None

\* C1: approved_by and approved_at are null in every meditation whose status
\* is not APPROVED, whatever generation runs and admin saves came before.
C1_StampsNullUnlessApproved ==
    \A id \in 1..Len(meditations) :
        meditations[id].status # "APPROVED" => Unstamped(meditations[id])

\* C2: the first admin save that stores a meditation as APPROVED stamps it with
\* the acting user and the current time, and no later step changes the stamps.
C2_FirstWriteWins ==
    [][ /\ \A id \in approved' \ approved :
              /\ ev'.op = "save" /\ ev'.id = id
              /\ meditations'[id].approved_by = Some(ev'.user)
              /\ meditations'[id].approved_at = Some(now)
        /\ \A id \in approved :
              /\ meditations'[id].approved_by = meditations[id].approved_by
              /\ meditations'[id].approved_at = meditations[id].approved_at ]_vars

\* an approved meditation saved again, as APPROVED, by another moderator at a later time
C2_Witness ==
    \E id \in approved :
        /\ ev.op = "save" /\ ev.id = id /\ ev.outcome = "changed"
        /\ meditations[id].status = "APPROVED"
        /\ meditations[id].approved_by = Some("ana") /\ ev.user = "luis"
        /\ meditations[id].approved_at = Some(1) /\ now > 1

PageOf(doc) == [exc |-> FALSE, status_code |-> 200, document |-> doc]

\* C3: right after an ingestion of a date, ingesting the same date and language
\* again from a page with the same blocks ends the same way and leaves the same
\* LiturgicalDay and DailyReading rows.
C3_IngestIdempotent ==
    (ev.op = "fetch" /\ ev.outcome \in {"ok", "no sections"}) =>
        \A doc \in DocumentsOf({SectionA, SectionB}) :
            ExtractReadingBlocks(doc) = ev.blocks =>
                LET again == FetchForDate(batch.dates[batch.i - 1], batch.language_code, PageOf(doc))
                IN /\ again.outcome = ev.outcome
                   /\ again.days = days
                   /\ again.readings = readings

\* a date ingested for at least the second time: its gospel is of an earlier
\* run, this run had two blocks
C3_Witness ==
    /\ ev.op = "fetch" /\ ev.outcome = "ok" /\ Len(ev.blocks) = 2
    /\ batch.dates[batch.i - 1] % 7 = 0
    /\ \E r \in BagToSet(readings) :
          /\ days[r.day].date = batch.dates[batch.i - 1]
          /\ r.reading_type = "GOSPEL"

ReadingKey(r) == <<r.day, r.language_code, r.reading_type, r.order>>

\* C4: at most one LiturgicalDay per date and at most one DailyReading per
\* (day, language_code, reading_type, order).
C4_UniqueKeys ==
    /\ \A i, j \in 1..Len(days) : days[i].date = days[j].date => i = j
    /\ \A r \in BagToSet(readings) : CopiesIn(r, readings) = 1
    /\ \A r, q \in BagToSet(readings) : ReadingKey(r) = ReadingKey(q) => r = q

\* both dates ingested, one of them again after a failed fetch in the same run
C4_Witness ==
    /\ Len(days) = 2
    /\ batch.dates = <<6, 7>> /\ batch.pc = "done"
    /\ ev.op = "fetch" /\ ev.outcome = "CommandError"
    /\ BagCardinality(readings) = 5

ExistsMeditation(day, language_code) ==
    \E k \in 1..Len(meditations) :
        meditations[k].day = day /\ meditations[k].language_code = language_code

\* C5: a generation run without force for a (day, language) that has a
\* meditation calls no generator and leaves the meditations as they are; a run
\* without force adds at most one meditation, and only where there was none.
C5_GenerationGuard ==
    [][ (GenerateStepTaken /\ ~batch.force) =>
          /\ \A d \in 1..Len(days) :
                (days[d].date = batch.dates[batch.i] /\ ExistsMeditation(d, batch.language_code))
                => /\ meditations' = meditations
                   /\ ~ev'.called
                   /\ ev'.outcome = "already exists"
          /\ \/ meditations' = meditations
             \/ /\ Len(meditations') = Len(meditations) + 1
                /\ \A d \in 1..Len(days) :
                      days[d].date = batch.dates[batch.i]
                      => ~ExistsMeditation(d, batch.language_code) ]_vars

\* a run without force skipped on a day that has a gospel and a draft
C5_Witness ==
    /\ ev.op = "generate" /\ ev.outcome = "already exists" /\ ~batch.force
    /\ batch.language_code = "es"
    /\ \E k \in 1..Len(meditations) :
          /\ days[meditations[k].day].date = batch.dates[batch.i - 1]
          /\ meditations[k].language_code = "es"
          /\ meditations[k].status = "DRAFT"

HasGospel(day, language_code) ==
    \E r \in BagToSet(readings) :
        r.day = day /\ r.language_code = language_code /\ r.reading_type = "GOSPEL"

\* C6: a run with force on a day that has a gospel is never skipped, and when
\* the generator returned a text it appends exactly one meditation, AI and
\* DRAFT with no approval stamps, to meditations that are otherwise unchanged.
C6_ForceAddsOneDraft ==
    [][ (GenerateStepTaken /\ batch.force) =>
          \A d \in 1..Len(days) :
              (days[d].date = batch.dates[batch.i] /\ HasGospel(d, batch.language_code))
              => /\ ev'.outcome \in {"created", "GeminiError", "JSONDecodeError"}
                 /\ ev'.body = None => meditations' = meditations
                 /\ ev'.body # None =>
                       /\ Len(meditations') = Len(meditations) + 1
                       /\ SubSeq(meditations', 1, Len(meditations)) = meditations
                       /\ LET m == meditations'[Len(meditations')] IN
                          /\ m.day = d /\ m.language_code = batch.language_code
                          /\ m.source = "AI" /\ m.status = "DRAFT"
                          /\ Unstamped(m)
                          /\ m.body = ev'.body[1] ]_vars

\* a second draft forced next to an approved meditation of the same day and language
C6_Witness ==
    /\ ev.op = "generate" /\ ev.outcome = "created" /\ batch.force
    /\ Len(meditations) = 2
    /\ meditations[1].day = meditations[2].day
    /\ meditations[1].language_code = meditations[2].language_code
    /\ meditations[1].status = "APPROVED"
    /\ meditations[2].status = "DRAFT"

IsSunday(date) == date % 7 = 0

\* the slots the weekday policy fills from n blocks, as reading_type :> block index
Slots(date, n) ==
    IF IsSunday(date)
    THEN {s \in {<<"FIRST_READING", 1>>, <<"SECOND_READING", 2>>, <<"GOSPEL", 3>>} : s[2] <= n}
    ELSE {s \in {<<"FIRST_READING", 1>>, <<"GOSPEL", 2>>} : s[2] <= n}

\* the rows of a table other than those of the given day, language and reading types, order 1
OtherRows(tbl, day, language_code, types) ==
    {<<r, CopiesIn(r, tbl)>> :
        r \in {q \in BagToSet(tbl) : ~(/\ q.day = day /\ q.language_code = language_code
                                       /\ q.reading_type \in types /\ q.order = 1)}}

C8_IngestionIsolation ==
    [][ /\ FetchStepTaken =>
             /\ LoopGoesOn
             /\ batch'.dates = batch.dates
             /\ ev'.op = "fetch"
             /\ ev'.outcome \in {"RequestException", "CommandError"}
                => (days' = days /\ readings' = readings)
             /\ ev'.outcome = "ok"
                => \E r \in BagToSet(readings') :
                       /\ days'[r.day].date = batch.dates[batch.i]
                       /\ r.language_code = batch.language_code
                       /\ r.reading_type = "FIRST_READING"
                       /\ r.text = ev'.blocks[1].text
        /\ (batch'.kind = "fetch" /\ batch'.pc # "running" /\ batch'.dates # <<>>)
             => batch'.i = Len(batch'.dates) + 1 ]_vars

\* a run over two dates: the fetch of the first failed, the readings of the second are stored
C8_Witness ==
    /\ batch.kind = "fetch" /\ batch.pc = "done" /\ batch.dates = <<6, 7>>
    /\ ev.op = "fetch" /\ ev.outcome = "ok"
    /\ \A d \in 1..Len(days) : days[d].date # 6
    /\ \E r \in BagToSet(readings) : days[r.day].date = 7

\* C9: a generator call that returned no text creates no meditation and does
\* not end the command: the loop goes on with the next date.
C9_GeneratorFailureRecovered ==
    [][ (GenerateStepTaken /\ ev'.called /\ ev'.body = None) =>
          /\ meditations' = meditations
          /\ LoopGoesOn ]_vars

GivenStr(s) == s # None /\ s[1] # ""

ParsedDate(s) == CHOOSE d \in January : IsoFormat(d) = s[1]

\* the dates from start to end, both included
Inclusive(start, end) == [k \in 1..(end - start + 1) |-> start + (k - 1)]

\* C10: a command whose dates were resolved runs over start..end, where end is
\* the explicit end, else start + (days - 1) for whatever days was given, else
\* start; without a start the range is the single date given, else today.
C10_EndRule ==
    (batch.kind # "none" /\ batch.error # "ValueError") =>
        batch.dates =
            IF GivenStr(batch.args.start_str)
            THEN Inclusive(ParsedDate(batch.args.start_str),
                           IF GivenStr(batch.args.end_str) THEN ParsedDate(batch.args.end_str)
                           ELSE IF batch.args.days # None
                                THEN ParsedDate(batch.args.start_str) + (batch.args.days[1] - 1)
                                ELSE ParsedDate(batch.args.start_str))
            ELSE IF GivenStr(batch.args.date_str)
                 THEN Inclusive(ParsedDate(batch.args.date_str), ParsedDate(batch.args.date_str))
                 ELSE Inclusive(batch.today, batch.today)

\* the start and end the resolver chose for the run
ResolvedRange ==
    ResolveRange(batch.args.date_str, batch.args.start_str, batch.args.end_str,
                 batch.args.days, batch.today)

\* C11: the dates resolved for [start, end] are start, start + 1, ..., end, one
\* day apart and ascending, end - start + 1 of them when end >= start, and
\* there is none exactly when end < start.
C11_RangeShape ==
    (batch.kind # "none" /\ batch.error # "ValueError") =>
        LET start == ResolvedRange.start
            end == ResolvedRange.end
            n == Len(batch.dates)
        IN /\ \A k \in 1..(n - 1) : batch.dates[k + 1] = batch.dates[k] + 1
           /\ end >= start => /\ n = end - start + 1
                              /\ batch.dates[1] = start
                              /\ batch.dates[n] = end
           /\ (n = 0) <=> (end < start)

\* a range of two dates given by its two endpoints
C11_Witness ==
    /\ batch.kind = "generate"
    /\ batch.args.start_str = Some("0001-01-06") /\ batch.args.end_str = Some("0001-01-07")
    /\ batch.dates = <<6, 7>>

\* a string was given for the option and date.fromisoformat rejects it
Malformed(s) == s # None /\ s[1] # "" /\ FromIsoFormat(s[1]) = None

\* C12: a command given a malformed string for --date, --start-date or
\* --end-date has failed with the parse error, and no per-date handler has run.
C12_MalformedFailFast ==
    (/\ batch.kind # "none"
     /\ \/ Malformed(batch.args.date_str)
        \/ Malformed(batch.args.start_str)
        \/ Malformed(batch.args.end_str))
    => /\ batch.pc = "failed"
       /\ batch.error = "ValueError"
       /\ ev = NoEvent

\* C13: a command whose range is empty, its end before its start, has completed
\* without an error, and no per-date handler has run.
C13_EmptyRangeNoOp ==
    (/\ batch.kind # "none"
     /\ batch.error # "ValueError"
     /\ ResolvedRange.end < ResolvedRange.start)
    => /\ batch.pc = "done"
       /\ batch.error = ""
       /\ ev = NoEvent

\* C14: a generation command run without the credential has failed as a whole:
\* it never enters its loop, no per-date handler runs, no meditation is created.
C14_MissingCredentialFatal ==
    (batch.kind = "generate" /\ batch.api_key = "") =>
        /\ batch.pc = "failed"
        /\ ev.op # "generate"

Skips == {"no day", "already exists", "no gospel"}

\* C15: the first unmet precondition of a generation run, in the order day,
\* existing meditation unless force, gospel, decides its outcome; a skipped run
\* raises nothing, calls no generator and writes nothing.
C15_PreconditionOrder ==
    [][ GenerateStepTaken =>
          LET ids == DayIds(days, batch.dates[batch.i])
              language_code == batch.language_code
          IN /\ ids = {} => ev'.outcome = "no day"
             /\ \A d \in ids :
                   IF ~batch.force /\ ExistsMeditation(d, language_code)
                   THEN ev'.outcome = "already exists"
                   ELSE IF ~HasGospel(d, language_code)
                        THEN ev'.outcome = "no gospel"
                        ELSE ev'.outcome \notin Skips
             /\ ev'.outcome \in Skips =>
                   /\ LoopGoesOn
                   /\ batch'.error = ""
                   /\ ~ev'.called
                   /\ meditations' = meditations
                   /\ days' = days /\ readings' = readings ]_vars

\* a run without force on a day that has a meditation and no gospel in the
\* language: skipped as "already exists"
C15_Witness ==
    /\ ev.op = "generate" /\ ev.outcome = "already exists" /\ ~batch.force
    /\ \E d \in DayIds(days, batch.dates[batch.i - 1]) :
          /\ ExistsMeditation(d, batch.language_code)
          /\ ~HasGospel(d, batch.language_code)

\* the fetch of the iteration did not fail: the page was received and parsed
Fetched(e) == e.op = "fetch" /\ e.outcome \notin {"RequestException", "CommandError"}

\* C16: an ingestion whose page was fetched and gave no block ends with the
\* warning, leaves every DailyReading as it was, and leaves the LiturgicalDay of
\* the date stored: the one there was, else a new one, and no other day changed.
C16_ZeroBlocks ==
    [][ (FetchStepTaken /\ Fetched(ev') /\ ev'.blocks = <<>>) =>
          LET date == batch.dates[batch.i] IN
          /\ ev'.outcome = "no sections"
          /\ readings' = readings
          /\ Cardinality(DayIds(days', date)) = 1
          /\ days' = IF DayIds(days, date) = {} THEN Append(days, [date |-> date]) ELSE days ]_vars

\* a page without a complete section fetched for a date that has its three readings
C16_Witness ==
    /\ ev.op = "fetch" /\ ev.outcome = "no sections"
    /\ ev.document # <<>>
    /\ Len(days) = 1
    /\ days[1].date = batch.dates[batch.i - 1]
    /\ Cardinality({r \in BagToSet(readings) : r.day = 1}) = 3

\* the rows of the readings of the days of other dates, with their multiplicities
ReadingsOfOtherDates(tbl, dtbl, date) ==
    {<<r, CopiesIn(r, tbl)>> : r \in {q \in BagToSet(tbl) : dtbl[q.day].date # date}}

\* C17: a command walks its dates in ascending order, one per iteration: it
\* starts at the first date, each iteration runs the handler of the date at
\* the position of the loop, writes nothing but records of that date, and
\* moves the position to the next date.
C17_SequentialOrder ==
    [][ /\ (batch.pc # "running" /\ batch'.pc = "running") =>
              /\ batch'.i = 1
              /\ \A k \in 1..(Len(batch'.dates) - 1) : batch'.dates[k] < batch'.dates[k + 1]
        /\ (batch.pc = "running" /\ batch' # batch) =>
              LET date == batch.dates[batch.i] IN
              /\ batch'.kind = batch.kind /\ batch'.dates = batch.dates
              /\ batch'.i = batch.i + 1
              /\ ev'.op = batch.kind
              /\ days' = days \/ days' = Append(days, [date |-> date])
              /\ ReadingsOfOtherDates(readings', days', date)
                 = ReadingsOfOtherDates(readings, days', date)
              /\ \/ meditations' = meditations
                 \/ /\ Len(meditations') = Len(meditations) + 1
                    /\ SubSeq(meditations', 1, Len(meditations)) = meditations
                    /\ days[meditations'[Len(meditations')].day].date = date
              /\ batch.kind = "fetch" => meditations' = meditations
              /\ batch.kind = "generate" => (days' = days /\ readings' = readings) ]_vars

\* a generation over two dates between its iterations: the meditation of the
\* first date is created, the second date is not yet looked at
C17_Witness ==
    /\ batch.kind = "generate" /\ batch.pc = "running"
    /\ batch.dates = <<6, 7>> /\ batch.i = 2
    /\ ev.op = "generate" /\ ev.outcome = "created"
    /\ \E k \in 1..Len(meditations) : days[meditations[k].day].date = 6
    /\ \A k \in 1..Len(meditations) : days[meditations[k].day].date # 7
    /\ \E d \in 1..Len(days) : days[d].date = 7 /\ HasGospel(d, batch.language_code)

\* the non-empty paragraphs of a section, in document order
NonEmpty(paragraphs) == SelectSeq(paragraphs, LAMBDA p : p # "")

\* a section with a content container and a title, a reference and a body
Complete(section) == section.content /\ Len(NonEmpty(section.paragraphs)) >= 3

RECURSIVE Body(_, _)
\* paragraphs 3..n with a blank line between each
Body(t, n) == IF n = 3 THEN t[3] ELSE Body(t, n - 1) \o "\n\n" \o t[n]

\* C18: the blocks extracted from a page are, in document order, one block for
\* each section that has a content container and at least 3 non-empty
\* paragraphs, with the first as title, the second as reference and the others
\* joined by a blank line as text; any other section gives no block.
C18_ExtractionFilter ==
    (ev.op = "fetch" /\ ev.outcome \in {"ok", "no sections"}) =>
        LET doc == ev.document
            kept == SelectSeq([i \in 1..Len(doc) |-> i], LAMBDA i : Complete(doc[i]))
        IN /\ Len(ev.blocks) = Len(kept)
           /\ \A k \in 1..Len(kept) :
                 LET t == NonEmpty(doc[kept[k]].paragraphs) IN
                 /\ ev.blocks[k].title = t[1]
                 /\ ev.blocks[k].reference = t[2]
                 /\ ev.blocks[k].text = Body(t, Len(t))
                 /\ Len(t) = 3 => ev.blocks[k].text = t[3]

\* a page of a section with two non-empty paragraphs, a section of four, a
\* section without content container and a section of three: two blocks
C18_Witness ==
    /\ ev.op = "fetch" /\ ev.outcome = "ok"
    /\ ev.document = <<ShortSection, SectionB, NoContentSection, SectionA>>
    /\ ev.blocks = <<[title |-> "Tb", reference |-> "Rb", text |-> "xb\n\nyb"],
                     [title |-> "Ta", reference |-> "Ra", text |-> "xa"]>>

\* the GOSPEL readings stored for a day and a language
GospelsOf(day, language_code) ==
    {r \in BagToSet(readings) :
        r.day = day /\ r.language_code = language_code /\ r.reading_type = "GOSPEL"}

\* C19: a generation run that calls the generator passes it the text and the
\* reference of the GOSPEL reading of smallest order of the day and language,
\* and the meditation it creates has the text the generator returned as body.
C19_SmallestOrderGospel ==
    [][ (GenerateStepTaken /\ ev'.called) =>
          \A d \in DayIds(days, batch.dates[batch.i]) :
              /\ \A g \in GospelsOf(d, batch.language_code) :
                    (\A q \in GospelsOf(d, batch.language_code) : g.order <= q.order)
                    => /\ ev'.prompt # None
                       /\ ev'.prompt[1].gospel_text = g.text
                       /\ ev'.prompt[1].reference = g.reference
              /\ ev'.outcome = "created" =>
                    /\ Len(meditations') = Len(meditations) + 1
                    /\ meditations'[Len(meditations')].day = d
                    /\ meditations'[Len(meditations')].body = "Meditemos" ]_vars

\* a Sunday without an ingested gospel and with two gospels added by hand, of
\* order 2 and 3: the meditation was generated from the one of order 2
C19_Witness ==
    /\ ev.op = "generate" /\ ev.outcome = "created"
    /\ \E d \in DayIds(days, batch.dates[batch.i - 1]) :
          /\ days[d].date = 7
          /\ {g.order : g \in GospelsOf(d, batch.language_code)} = {2, 3}
          /\ ev.prompt = Some([gospel_text |-> "g2", reference |-> "Jn 2",
                               date_str |-> "0001-01-07", language_code |-> "es"])
          /\ \E k \in 1..Len(meditations) :
                meditations[k].day = d /\ meditations[k].body = "Meditemos"

\* C20: a fetch that failed, by a network exception or a status other than
\* 200, leaves days, readings and meditations as they were; a LiturgicalDay is
\* only ever stored by an ingestion of its date whose fetch succeeded; and a
\* generation run on a date without LiturgicalDay is skipped as "no day".
C20_FailedFetchNoDay ==
    [][ /\ (FetchStepTaken /\ ~Fetched(ev')) =>
              /\ ev'.outcome \in {"RequestException", "CommandError"}
              /\ days' = days /\ readings' = readings /\ meditations' = meditations
        /\ days' # days =>
              /\ FetchStepTaken /\ Fetched(ev')
              /\ days' = Append(days, [date |-> batch.dates[batch.i]])
        /\ (GenerateStepTaken /\ DayIds(days, batch.dates[batch.i]) = {}) =>
              /\ ev'.outcome = "no day"
              /\ ~ev'.called
              /\ meditations' = meditations ]_vars

\* a generation over two dates of which only the second was ever fetched with
\* success: the first is skipped as "no day"
C20_Witness ==
    /\ batch.kind = "generate" /\ batch.dates = <<6, 7>> /\ batch.i = 2
    /\ ev.op = "generate" /\ ev.outcome = "no day"
    /\ days = <<[date |-> 7]>>
    /\ readings # EmptyBag

\* the keys of the readings stored
ReadingKeys(tbl) == {ReadingKey(r) : r \in BagToSet(tbl)}

\* C21: an iteration of the ingestion leaves the meditations as they are, an
\* iteration of the generation leaves days and readings as they are and at
\* most appends one meditation to the others, and no step at all removes a
\* LiturgicalDay, the key of a DailyReading or a GospelMeditation.
C21_DisjointWritesNoDelete ==
    [][ /\ FetchStepTaken => meditations' = meditations
        /\ GenerateStepTaken =>
              /\ days' = days
              /\ readings' = readings
              /\ Len(meditations') \in {Len(meditations), Len(meditations) + 1}
              /\ SubSeq(meditations', 1, Len(meditations)) = meditations
        /\ Len(days') >= Len(days)
        /\ SubSeq(days', 1, Len(days)) = days
        /\ ReadingKeys(readings) \subseteq ReadingKeys(readings')
        /\ Len(meditations') >= Len(meditations)
        /\ \A id \in 1..Len(meditations) :
              /\ meditations'[id].day = meditations[id].day
              /\ meditations'[id].language_code = meditations[id].language_code ]_vars

\* both dates ingested again after an editor added a gospel to the Sunday and
\* a meditation was generated from it: readings, added gospel and meditation
\* are all there
C21_Witness ==
    /\ batch.kind = "fetch" /\ batch.pc = "done" /\ batch.dates = <<6, 7>>
    /\ ev.op = "fetch" /\ ev.outcome = "ok"
    /\ Len(days) = 2
    /\ Cardinality(ReadingKeys(readings)) = 5
    /\ \E r \in BagToSet(readings) :
          /\ days[r.day].date = 7 /\ r.reading_type = "GOSPEL" /\ r.order = 2
          /\ \E id \in 1..Len(meditations) :
                meditations[id].day = r.day /\ meditations[id].source = "AI"

====
